---- MODULE Spec2Model ----
(***************************************************************************)
(* Intent routing layer of the assistant bot (core/router.ts): the skill   *)
(* registry, the keyword classifier, the AI classifier and routeMessage.   *)
(* Strings are sequences of one-character strings, so that toLowerCase,    *)
(* String.includes, the /\{[\s\S]*\}/ match and substring() are computed   *)
(* the way the code computes them.                                         *)
(***************************************************************************)
EXTENDS Integers, Sequences, FiniteSets, TLC

VARIABLES
  isSupabaseConfigured,  \* services/supabase.ts: fixed when the process starts
  skillsTable,           \* rows of the durable "skills" table
  SKILL_REGISTRY,        \* module-level registry of core/router.ts
  pc,                    \* "idle": no call in flight; "returned": a call has settled
  call,                  \* the call that has settled: operation, inputs, outcome
  autonomy_log,          \* rows the settled call handed to the autonomy_log insert
  loads,                 \* initializeSkillRegistry calls that may overlap, in call order
  conversationCache,     \* core/memory.ts: chat id -> messages kept in memory
  stored,                \* chat id -> number of messages ever handed to the store call
  vip_contacts,          \* rows of the durable "vip_contacts" table
  vipEmailCache,         \* skills/email: the cached VIP set, or null
  vipCacheExpiry,        \* skills/email: Date.now() value at which the cached set expires
  now,                   \* Date.now()
  vipCalls,              \* VIP calls that may overlap, in call order
  applied,               \* number of writes the vip_contacts table has taken
  completed              \* the latest of these writes whose call has returned

memoryVars == <<conversationCache, stored>>

vipVars == <<vip_contacts, vipEmailCache, vipCacheExpiry, now, vipCalls, applied, completed>>

vars == <<isSupabaseConfigured, skillsTable, SKILL_REGISTRY, pc, call, autonomy_log, loads,
          memoryVars, vipVars>>

----------------------------------------------------------------------------
(* Bounds of the model *)

MaxMsgLen == 2

\* Calls of initializeSkillRegistry whose round trips may overlap
MaxLoads == 2

MaxProse == 1

----------------------------------------------------------------------------
(* Strings *)

UpperCase ==
  <<"A","B","C","D","E","F","G","H","I","J","K","L","M",
    "N","O","P","Q","R","S","T","U","V","W","X","Y","Z">>

LowerCase ==
  <<"a","b","c","d","e","f","g","h","i","j","k","l","m",
    "n","o","p","q","r","s","t","u","v","w","x","y","z">>

UpperCaseChars == {UpperCase[i] : i \in 1..Len(UpperCase)}

toLowerCaseChar(c) ==
  IF c \in UpperCaseChars
  THEN LowerCase[CHOOSE i \in 1..Len(UpperCase) : UpperCase[i] = c]
  ELSE c

toLowerCase(str) ==
  [i \in 1..Len(str) |-> toLowerCaseChar(str[i])]

includes(str, pattern) ==
  \E i \in 0..(Len(str) - Len(pattern)) :
     \A k \in 1..Len(pattern) : str[i + k] = pattern[k]

substring(str, from, to) ==
  SubSeq(str, from + 1, IF to < Len(str) THEN to ELSE Len(str))

----------------------------------------------------------------------------
(* Numbers: a confidence is an exact fraction n/d in lowest terms *)

RECURSIVE GCD(_, _)
GCD(a, b) ==
  IF b = 0 THEN a ELSE GCD(b, a % b)

Frac(n, d) ==
  LET g == GCD(n, d) IN [n |-> n \div g, d |-> d \div g]

FracLeq(x, y) ==
  x.n * y.d <= y.n * x.d

FracLess(x, y) ==
  x.n * y.d < y.n * x.d

FracAdd(x, y) ==
  Frac(x.n * y.d + y.n * x.d, x.d * y.d)

Half == Frac(1, 2)

One == Frac(1, 1)

MathMin(x, y) ==
  IF FracLeq(x, y) THEN x ELSE y

----------------------------------------------------------------------------
(* Built-in skill list *)

DEFAULT_SKILLS ==
  <<
     [id |-> "calendar",
      triggerPatterns |-> <<
          <<"s","c","h","e","d","u","l","e">>,
          <<"m","e","e","t","i","n","g">>,
          <<"a","p","p","o","i","n","t","m","e","n","t">>,
          <<"c","a","l","e","n","d","a","r">>,
          <<"e","v","e","n","t">>,
          <<"w","h","e","n"," ","a","m"," ","i"," ","f","r","e","e">>,
          <<"w","h","a","t","'","s"," ","o","n"," ","m","y"," ","c","a","l","e","n","d","a","r">>,
          <<"b","o","o","k"," ","t","i","m","e">>,
          <<"c","a","n","c","e","l"," ","m","e","e","t","i","n","g">>,
          <<"r","e","s","c","h","e","d","u","l","e">>,
          <<"a","v","a","i","l","a","b","i","l","i","t","y">>>>,
      autonomyLevel |-> "approval_required",
      enabled |-> TRUE],
     [id |-> "email",
      triggerPatterns |-> <<
          <<"e","m","a","i","l">>,
          <<"i","n","b","o","x">>,
          <<"m","a","i","l">>,
          <<"m","e","s","s","a","g","e"," ","f","r","o","m">>,
          <<"s","e","n","d"," ","t","o">>,
          <<"r","e","p","l","y"," ","t","o">>,
          <<"d","r","a","f","t">>,
          <<"u","n","r","e","a","d">>,
          <<"i","m","p","o","r","t","a","n","t"," ","e","m","a","i","l","s">>>>,
      autonomyLevel |-> "approval_required",
      enabled |-> TRUE],
     [id |-> "market",
      triggerPatterns |-> <<
          <<"s","t","o","c","k">>,
          <<"m","a","r","k","e","t">>,
          <<"p","o","r","t","f","o","l","i","o">>,
          <<"c","r","y","p","t","o">>,
          <<"b","i","t","c","o","i","n">>,
          <<"p","r","i","c","e"," ","o","f">>,
          <<"h","o","w","'","s"," ","t","h","e"," ","m","a","r","k","e","t">>,
          <<"i","n","v","e","s","t","m","e","n","t">>,
          <<"t","r","a","d","i","n","g">>,
          <<"p","o","s","i","t","i","o","n","s">>,
          <<"g","a","i","n","s">>,
          <<"l","o","s","s","e","s">>,
          <<"a","n","a","l","y","s","i","s">>,
          <<"n","v","d","a">>,
          <<"a","a","p","l">>,
          <<"t","s","l","a">>>>,
      autonomyLevel |-> "full",
      enabled |-> TRUE],
     [id |-> "code-exec",
      triggerPatterns |-> <<
          <<"c","o","d","e">>,
          <<"p","r","o","g","r","a","m">>,
          <<"s","c","r","i","p","t">>,
          <<"f","i","x"," ","b","u","g">>,
          <<"i","m","p","l","e","m","e","n","t">>,
          <<"c","r","e","a","t","e"," ","f","u","n","c","t","i","o","n">>,
          <<"r","e","f","a","c","t","o","r">>,
          <<"d","e","b","u","g">>,
          <<"d","e","p","l","o","y">>,
          <<"c","o","m","m","i","t">>,
          <<"p","u","s","h">>,
          <<"p","u","l","l"," ","r","e","q","u","e","s","t">>,
          <<"g","i","t","h","u","b">>>>,
      autonomyLevel |-> "approval_required",
      enabled |-> TRUE],
     [id |-> "social",
      triggerPatterns |-> <<
          <<"t","w","e","e","t">>,
          <<"p","o","s","t">>,
          <<"t","w","i","t","t","e","r">>,
          <<"x",".","c","o","m">>,
          <<"f","a","c","e","b","o","o","k">>,
          <<"s","o","c","i","a","l"," ","m","e","d","i","a">>,
          <<"m","e","n","t","i","o","n","s">>,
          <<"d","m">>,
          <<"d","i","r","e","c","t"," ","m","e","s","s","a","g","e">>,
          <<"f","o","l","l","o","w","e","r","s">>,
          <<"e","n","g","a","g","e","m","e","n","t">>>>,
      autonomyLevel |-> "approval_required",
      enabled |-> TRUE],
     [id |-> "kanban",
      triggerPatterns |-> <<
          <<"t","a","s","k">>,
          <<"t","o","d","o">>,
          <<"p","r","o","j","e","c","t">>,
          <<"k","a","n","b","a","n">>,
          <<"b","o","a","r","d">>,
          <<"a","d","d"," ","t","a","s","k">>,
          <<"c","o","m","p","l","e","t","e">>,
          <<"m","o","v","e"," ","t","o">>,
          <<"b","a","c","k","l","o","g">>,
          <<"i","n"," ","p","r","o","g","r","e","s","s">>,
          <<"d","o","n","e">>,
          <<"b","l","o","c","k","e","d">>,
          <<"l","i","f","e","w","a","v","e">>,
          <<"v","u","m","i","r","a">>>>,
      autonomyLevel |-> "full",
      enabled |-> TRUE],
     [id |-> "reminders",
      triggerPatterns |-> <<
          <<"r","e","m","i","n","d"," ","m","e">>,
          <<"r","e","m","i","n","d","e","r">>,
          <<"d","o","n","'","t"," ","f","o","r","g","e","t">>,
          <<"a","l","e","r","t"," ","m","e">>,
          <<"n","o","t","i","f","y"," ","m","e">>,
          <<"s","e","t"," ","r","e","m","i","n","d","e","r">>,
          <<"r","e","m","e","m","b","e","r"," ","t","o">>>>,
      autonomyLevel |-> "full",
      enabled |-> TRUE],
     [id |-> "general",
      triggerPatterns |-> <<>>,
      autonomyLevel |-> "full",
      enabled |-> TRUE]
  >>

MsgPriceOfNvda ==
  <<"W","h","a","t","'","s"," ","t","h","e"," ","p","r","i","c","e"," ","o","f"," ","N","V","D","A","?">>

MsgHello ==
  <<"H","e","l","l","o",","," ","h","o","w"," ","a","r","e"," ","y","o","u","?">>

MsgSchedule ==
  <<"S","c","h","e","d","u","l","e"," ","a"," ","m","e","e","t","i","n","g"," ","w","i","t","h"," ","J","o","h","n"," ","t","o","m","o","r","r","o","w"," ","a","t"," ","2","p","m">>

----------------------------------------------------------------------------
(* Keyword classifier *)

\* Variant without the 0.5 floor
keywordConfidence_NoFloor(matched, total) ==
  MathMin(Frac(matched, total), One)

\* Variant without the cap at 1
keywordConfidence_NoCap(matched, total) ==
  FracAdd(Frac(matched, total), Half)

keywordConfidence(matched, total) ==
  MathMin(FracAdd(Frac(matched, total), Half), One)

matchedPatterns(skill, lowerMessage) ==
  LET hit(pattern) == includes(lowerMessage, toLowerCase(pattern))
  IN  SelectSeq(skill.triggerPatterns, hit)

\* Variant that puts an element before the elements of equal confidence
insertByConfidence_Unstable(sorted, r) ==
  LET ahead == {i \in 1..Len(sorted) : FracLess(r.confidence, sorted[i].confidence)}
      k == IF \A i \in 1..Len(sorted) : i \in ahead THEN Len(sorted)
           ELSE (CHOOSE i \in 1..Len(sorted) :
                   /\ i \notin ahead
                   /\ \A j \in 1..Len(sorted) : j \notin ahead => i <= j) - 1
  IN  SubSeq(sorted, 1, k) \o <<r>> \o SubSeq(sorted, k + 1, Len(sorted))

\* Array.prototype.sort with (a, b) => b.confidence - a.confidence: a stable
\* sort (ECMAScript 2019, node 22), here as an insertion sort that puts an
\* element after every element that does not rank strictly below it.
insertByConfidence(sorted, r) ==
  LET ahead == {i \in 1..Len(sorted) : ~ FracLess(sorted[i].confidence, r.confidence)}
      k == IF \A i \in 1..Len(sorted) : i \in ahead THEN Len(sorted)
           ELSE (CHOOSE i \in 1..Len(sorted) :
                   /\ i \notin ahead
                   /\ \A j \in 1..Len(sorted) : j \notin ahead => i <= j) - 1
  IN  SubSeq(sorted, 1, k) \o <<r>> \o SubSeq(sorted, k + 1, Len(sorted))

sortByConfidence(results) ==
  LET S[i \in 0..Len(results)] ==
        IF i = 0 THEN << >> ELSE insertByConfidence(S[i - 1], results[i])
  IN  S[Len(results)]

keywordCandidates(message, registry) ==
  LET lowerMessage == toLowerCase(message)
      R[i \in 0..Len(registry)] ==
        IF i = 0 THEN << >>
        ELSE LET skill == registry[i]
                 matched == matchedPatterns(skill, lowerMessage)
             IN  IF ~ skill.enabled \/ skill.id = "general" THEN R[i - 1]
                 ELSE IF Len(matched) > 0
                 THEN Append(R[i - 1],
                        [skillId |-> skill.id,
                         confidence |-> keywordConfidence(Len(matched), Len(skill.triggerPatterns)),
                         extractedParams |-> {},
                         requiresApproval |-> (skill.autonomyLevel = "approval_required")])
                 ELSE R[i - 1]
  IN  R[Len(registry)]

\* Variant that gives the synthetic result the default confidence 0.5
generalResult_Half ==
  [skillId |-> "general",
   confidence |-> Half,
   extractedParams |-> {},
   requiresApproval |-> FALSE]

generalResult ==
  [skillId |-> "general",
   confidence |-> One,
   extractedParams |-> {},
   requiresApproval |-> FALSE]

\* Variant without the general entry for a message that matches nothing
classifyIntentKeyword_NoFallback(message, registry) ==
  sortByConfidence(keywordCandidates(message, registry))

classifyIntentKeyword(message, registry) ==
  LET results == sortByConfidence(keywordCandidates(message, registry))
  IN  IF Len(results) = 0 THEN <<generalResult>> ELSE results

----------------------------------------------------------------------------
(* The durable skills table (config/schema.sql): id is the primary key,    *)
(* trigger_patterns may be NULL, autonomy_level is one of the two levels.  *)

NULL == << <<"NULL">> >>

Row(id, patterns, level, enabled) ==
  [id |-> id, trigger_patterns |-> patterns, autonomy_level |-> level, enabled |-> enabled]

TableEmpty == << >>

TableSeed ==
  << Row("calendar", << <<"a">> >>, "approval_required", TRUE),
     Row("market", << <<"b">>, <<"a","b">>, <<"b","b">> >>, "full", TRUE),
     Row("general", << >>, "full", TRUE) >>

TableNoGeneral ==
  << Row("market", << <<"a">>, <<"b">>, <<"a","a">>, <<"b","b">>, <<"a","b">> >>, "full", TRUE),
     Row("calendar", << <<"b">>, <<"a","a">>, <<"b","a">> >>, "approval_required", TRUE),
     Row("email", << <<"a">>, <<"b">>, <<"a","b">> >>, "approval_required", TRUE) >>

TableGeneralGated ==
  << Row("general", << <<"a">> >>, "approval_required", TRUE),
     Row("market", << <<"b">> >>, "full", TRUE) >>

TableMixed ==
  << Row("calendar", << <<"A">> >>, "approval_required", TRUE),
     Row("email", NULL, "full", TRUE),
     Row("market", << <<"a">> >>, "full", FALSE),
     Row("general", << >>, "full", TRUE) >>

Tables == {TableEmpty, TableSeed, TableNoGeneral, TableGeneralGated, TableMixed}

\* supabase.from('skills').select('*').eq('enabled', true)
selectEnabled(table) ==
  LET on(row) == row.enabled = TRUE IN SelectSeq(table, on)

\* What one round trip to the store can yield
FetchNotCalled == [kind |-> "none", error |-> FALSE, data |-> << >>]

FetchOutcomes(table) ==
  { [kind |-> "rows", error |-> FALSE, data |-> selectEnabled(table)],
    [kind |-> "error", error |-> TRUE, data |-> << >>],
    [kind |-> "throws", error |-> FALSE, data |-> << >>] }

----------------------------------------------------------------------------
(* Skill registry *)

rowToSkill(s) ==
  [id |-> s.id,
   triggerPatterns |-> IF s.trigger_patterns = NULL THEN << >> ELSE s.trigger_patterns,
   autonomyLevel |-> s.autonomy_level,
   enabled |-> s.enabled]

\* Variant: an answer of zero rows is taken as the new registry
initializeSkillRegistry_EmptyAccepted(configured, fetch) ==
  IF configured /\ fetch.kind = "rows" /\ ~ fetch.error
  THEN [i \in 1..Len(fetch.data) |-> rowToSkill(fetch.data[i])]
  ELSE DEFAULT_SKILLS

\* Variant: the registry is left with the first row only
initializeSkillRegistry_FirstRowOnly(configured, fetch) ==
  IF configured /\ fetch.kind = "rows" /\ ~ fetch.error /\ Len(fetch.data) > 0
  THEN <<rowToSkill(fetch.data[1])>>
  ELSE DEFAULT_SKILLS

\* Variant: the rows of the store are added to the built-in list
initializeSkillRegistry_Merged(configured, fetch) ==
  IF configured /\ fetch.kind = "rows" /\ ~ fetch.error /\ Len(fetch.data) > 0
  THEN DEFAULT_SKILLS \o [i \in 1..Len(fetch.data) |-> rowToSkill(fetch.data[i])]
  ELSE DEFAULT_SKILLS

initializeSkillRegistry(configured, fetch) ==
  IF configured /\ fetch.kind = "rows" /\ ~ fetch.error /\ Len(fetch.data) > 0
  THEN [i \in 1..Len(fetch.data) |-> rowToSkill(fetch.data[i])]
  ELSE DEFAULT_SKILLS

\* Array.prototype.find: the first skill with the id, or undefined
hasSkill(registry, skillId) ==
  \E i \in 1..Len(registry) : registry[i].id = skillId

getSkill(registry, skillId) ==
  registry[CHOOSE i \in 1..Len(registry) :
             /\ registry[i].id = skillId
             /\ \A j \in 1..(i - 1) : registry[j].id # skillId]

getEnabledSkills(registry) ==
  LET on(s) == s.enabled IN SelectSeq(registry, on)

----------------------------------------------------------------------------
(* JavaScript values of the parsed model output *)

Zero == Frac(0, 1)

Undefined == [type |-> "undefined", s |-> "", n |-> Zero, o |-> {}]

JsString(str) == [type |-> "string", s |-> str, n |-> Zero, o |-> {}]

JsNumber(num) == [type |-> "number", s |-> "", n |-> num, o |-> {}]

JsObject(members) == [type |-> "object", s |-> "", n |-> Zero, o |-> members]

falsy(v) ==
  \/ v.type = "undefined"
  \/ v.type = "string" /\ v.s = ""
  \/ v.type = "number" /\ v.n = Zero

\* a || b
JsOr(v, default) ==
  IF falsy(v) THEN default ELSE v

----------------------------------------------------------------------------
(* Text of a model response: braces, other characters, and the members of  *)
(* a JSON object ("key": value), each member one token.                    *)

LBRACE == [t |-> "{", key |-> "", val |-> Undefined]

RBRACE == [t |-> "}", key |-> "", val |-> Undefined]

PROSE == [t |-> "prose", key |-> "", val |-> Undefined]

Member(key, val) == [t |-> "member", key |-> key, val |-> val]

\* response.match(/\{[\s\S]*\}/): from the first "{" to the last "}" after it
HasJsonMatch(response) ==
  \E i, j \in 1..Len(response) : i < j /\ response[i] = LBRACE /\ response[j] = RBRACE

jsonMatch(response) ==
  LET first == CHOOSE i \in 1..Len(response) :
                 /\ response[i] = LBRACE
                 /\ \A k \in 1..(i - 1) : response[k] # LBRACE
      last == CHOOSE j \in 1..Len(response) :
                 /\ response[j] = RBRACE
                 /\ \A k \in (j + 1)..Len(response) : response[k] # RBRACE
  IN  SubSeq(response, first, last)

\* JSON.parse accepts the text of one object: "{", members, "}"
IsJsonObject(text) ==
  /\ Len(text) >= 2
  /\ text[1] = LBRACE
  /\ text[Len(text)] = RBRACE
  /\ \A i \in 2..(Len(text) - 1) : text[i].t = "member"

\* parsed[key], undefined when the object has no such member (last one wins)
property(text, key) ==
  LET at == {i \in 2..(Len(text) - 1) : text[i].key = key}
  IN  IF at = {} THEN Undefined
      ELSE text[CHOOSE i \in at : \A j \in at : j <= i].val

----------------------------------------------------------------------------
(* AI classifier *)

\* What one call of model.generateContent can yield
ProviderThrows == [kind |-> "throws", text |-> << >>]

ProviderNotCalled == [kind |-> "none", text |-> << >>]

ProviderText(text) == [kind |-> "text", text |-> text]

\* A value as a field of the classification: a number is kept as the fraction,
\* a value of any other type as it is
numberOrValue(v) == IF v.type = "number" THEN v.n ELSE v

\* The try block: "return" with a classification, "throw", or fall through
tryParse(provider) ==
  IF provider.kind = "throws" THEN [status |-> "throw"]
  ELSE IF ~ HasJsonMatch(provider.text) THEN [status |-> "fallthrough"]
  ELSE LET text == jsonMatch(provider.text)
       IN  IF ~ IsJsonObject(text) THEN [status |-> "throw"]
           ELSE [status |-> "return",
                 value |->
                   [primaryIntent |-> JsOr(property(text, "primaryIntent"), JsString("general")).s,
                    confidence |->
                      numberOrValue(JsOr(property(text, "confidence"), JsNumber(Half))),
                    entities |-> JsOr(property(text, "entities"), JsObject({})).o,
                    reasoning |-> JsOr(property(text, "reasoning"), JsString("")).s]]

\* The skill catalogue rendered into the prompt: one line per registry entry
\* other than general, named here by the id it starts with
skillDescriptions(registry) ==
  LET notGeneral(skill) == skill.id # "general"
      listed == SelectSeq(registry, notGeneral)
  IN  [i \in 1..Len(listed) |-> listed[i].id]

\* Variant that always answers with the defaults of the fallback
keywordFallback_Defaults(message, registry) ==
  [primaryIntent |-> "general",
   confidence |-> Half,
   entities |-> {},
   reasoning |-> "Fallback to keyword matching"]

keywordFallback(message, registry) ==
  LET keywordResult == classifyIntentKeyword(message, registry)
  IN  [primaryIntent |->
         IF Len(keywordResult) = 0 THEN "general"
         ELSE JsOr(JsString(keywordResult[1].skillId), JsString("general")).s,
       confidence |->
         IF Len(keywordResult) = 0 THEN Half
         ELSE JsOr(JsNumber(keywordResult[1].confidence), JsNumber(Half)).n,
       entities |-> {},
       reasoning |-> "Fallback to keyword matching"]

\* Variant without the catch clause: a failure of the try block propagates
classifyIntentWithAI_NoCatch(message, registry, provider) ==
  LET attempt == tryParse(provider)
  IN  IF attempt.status = "return"
      THEN [status |-> "return", value |-> attempt.value]
      ELSE IF attempt.status = "throw"
      THEN [status |-> "throw"]
      ELSE [status |-> "return", value |-> keywordFallback(message, registry)]

\* The catch clause logs and falls through to the keyword fallback
classifyIntentWithAI(message, registry, provider) ==
  LET attempt == tryParse(provider)
  IN  IF attempt.status = "return"
      THEN [status |-> "return", value |-> attempt.value]
      ELSE [status |-> "return", value |-> keywordFallback(message, registry)]

----------------------------------------------------------------------------
(* Router *)

PreviewLen == 100

\* Variant: the keyword path gives no reasoning
keywordClassification_NoReasoning(message, registry) ==
  LET keywordResults == classifyIntentKeyword(message, registry)
  IN  [primaryIntent |-> keywordResults[1].skillId,
       confidence |-> keywordResults[1].confidence,
       entities |-> {},
       reasoning |-> ""]

keywordClassification(message, registry) ==
  LET keywordResults == classifyIntentKeyword(message, registry)
  IN  [primaryIntent |-> keywordResults[1].skillId,
       confidence |-> keywordResults[1].confidence,
       entities |-> {},
       reasoning |-> "Keyword matching"]

\* Variant that gates every skill whose autonomy level is not 'full'
routingResult_NotFull(classification, registry) ==
  [skillId |-> classification.primaryIntent,
   confidence |-> classification.confidence,
   extractedParams |-> classification.entities,
   requiresApproval |->
     ~ (/\ hasSkill(registry, classification.primaryIntent)
        /\ getSkill(registry, classification.primaryIntent).autonomyLevel = "full"),
   reasoning |-> classification.reasoning]

routingResult(classification, registry) ==
  [skillId |-> classification.primaryIntent,
   confidence |-> classification.confidence,
   extractedParams |-> classification.entities,
   requiresApproval |->
     (/\ hasSkill(registry, classification.primaryIntent)
      /\ getSkill(registry, classification.primaryIntent).autonomyLevel = "approval_required"),
   reasoning |-> classification.reasoning]

\* Variant: the whole message is logged
autonomyLogRow_WholeMessage(result, message) ==
  [skill_id |-> result.skillId,
   action_type |-> "route",
   action_details |->
     [message |-> message,
      confidence |-> result.confidence,
      reasoning |-> result.reasoning],
   outcome |-> "success"]

\* The entry routeMessage hands to logAutonomyAction, as the row of autonomy_log
\* that logAutonomyAction makes of it
autonomyLogRow(result, message) ==
  [skill_id |-> result.skillId,
   action_type |-> "route",
   action_details |->
     [message |-> substring(message, 0, PreviewLen),
      confidence |-> result.confidence,
      reasoning |-> result.reasoning],
   outcome |-> "success"]

\* routeMessage up to the result: the registry after the lazy load, and the
\* classification outcome ("throw" when the classifier's failure propagates)
\* Variant: every call loads the registry anew
registryIsEmpty_Always(registry) == TRUE

\* Line 372: SKILL_REGISTRY.length === 0
registryIsEmpty(registry) == Len(registry) = 0

\* Variant: the registry is assigned anew on every call
routeRegistry_Reloads(registry, configured, fetch) ==
  initializeSkillRegistry(configured, fetch)

routeRegistry(registry, configured, fetch) ==
  IF registryIsEmpty(registry) THEN initializeSkillRegistry(configured, fetch) ELSE registry

\* Variant: the AI classifier is used when either the flag or the client is given
usesAI_EitherSuffices(hasGenAI, useAI) == useAI \/ hasGenAI

\* Line 378: whether classifyIntentWithAI, and with it the provider, is invoked
usesAI(hasGenAI, useAI) == useAI /\ hasGenAI

routeMessage(message, registry, hasGenAI, useAI, provider) ==
  LET outcome == IF usesAI(hasGenAI, useAI)
                 THEN classifyIntentWithAI(message, registry, provider)
                 ELSE [status |-> "return", value |-> keywordClassification(message, registry)]
  IN  IF outcome.status = "return"
      THEN [status |-> "return",
            classification |-> outcome.value,
            value |-> routingResult(outcome.value, registry)]
      ELSE [status |-> "throw"]

\* What the insert into autonomy_log can do: store the row, answer with an
\* error value, or reject
InsertNotCalled == "none"

\* memory.ts logAutonomyAction: the rows handed to the insert, and how the call
\* ends; an error value is written to the console, a rejection is not caught
logAutonomyAction(configured, row, insert) ==
  IF configured
  THEN [status |-> IF insert = "rejects" THEN "throw" ELSE "return", inserts |-> <<row>>]
  ELSE [status |-> "return", inserts |-> << >>]

----------------------------------------------------------------------------
(* The Telegram bot of index.ts: the middleware registered with bot.use,     *)
(* bot.command and bot.on, in the order of registration.                     *)

\* ctx.from?.id: the id of the sender, undefined for an update without one
NoSender == [type |-> "undefined", id |-> 0]

Sender(id) == [type |-> "number", id |-> id]

\* Variant: the owner guard is registered after the handlers
Middleware_GuardLast ==
  <<"start", "status", "clear", "portfolio", "quote", "market", "message:text", "ownerGuard">>

Middleware ==
  <<"ownerGuard", "start", "status", "clear", "portfolio", "quote", "market", "message:text">>

Commands == {"start", "status", "clear", "portfolio", "quote", "market"}

\* Kinds of update: one of the commands, a command the bot does not know,
\* other text, or an update that is no text message
UpdateKinds == Commands \cup {"unknown command", "text", "no text"}

\* Variant: an update without a sender passes the guard
ownerGuard_SenderOptional(from, ownerUserId) ==
  from = NoSender \/ from = Sender(ownerUserId)

\* Line 165: next() is called unless ctx.from?.id !== config.telegram.ownerUserId
ownerGuard(from, ownerUserId) ==
  ~ (from # Sender(ownerUserId))

\* bot.command(name) takes the command of that name, bot.on('message:text')
\* every text message
matches(handler, kind) ==
  IF handler = "message:text" THEN kind # "no text" ELSE kind = handler

\* The middleware that runs for an update, in order: the guard ends the chain
\* or calls next(), a handler that matches ends it
RECURSIVE runFrom(_, _, _, _, _)
runFrom(chain, i, from, kind, ownerUserId) ==
  IF i > Len(chain) THEN << >>
  ELSE IF chain[i] = "ownerGuard"
       THEN IF ownerGuard(from, ownerUserId)
            THEN <<chain[i]>> \o runFrom(chain, i + 1, from, kind, ownerUserId)
            ELSE <<chain[i]>>
       ELSE IF matches(chain[i], kind)
            THEN <<chain[i]>>
            ELSE runFrom(chain, i + 1, from, kind, ownerUserId)

handleUpdate(from, kind, ownerUserId) ==
  runFrom(Middleware, 1, from, kind, ownerUserId)

\* The handlers among the middleware that ran
handlersOf(ran) ==
  LET isHandler(m) == m # "ownerGuard" IN SelectSeq(ran, isHandler)

\* Owner ids that pass validateConfig, and the senders of updates
OwnerUserIds == {1, 2}

Senders == {NoSender} \cup {Sender(id) : id \in 1..3}

----------------------------------------------------------------------------
(* Conversation memory of core/memory.ts, in-memory branch.  A message is    *)
(* identified by its number in the chat: the n-th message handed to the      *)
(* store call for that chat; the bot stores the user's message and then its  *)
(* own answer, so odd numbers are the user's.                                *)

CacheLimit == 100

ChatIds == {"1", "2"}

\* Messages a chat is sent in a run: enough to overflow the cache in one chat
MaxStoredLong == 101

MaxStoredShort == 1

MaxStored(chatId) == IF chatId = "1" THEN MaxStoredLong ELSE MaxStoredShort

conversationMessage(n) ==
  [role |-> IF n % 2 = 1 THEN "user" ELSE "assistant", content |-> n]

\* Array.prototype.slice(start) with an integer start: a negative start counts
\* from the end, and -0 is 0
slice(array, start) ==
  LET len == Len(array)
      k == IF start < 0 THEN (IF len + start > 0 THEN len + start ELSE 0)
           ELSE (IF start < len THEN start ELSE len)
  IN  SubSeq(array, k + 1, len)

\* Map.prototype.get(chatId) || []
cachedMessages(cache, chatId) ==
  IF chatId \in DOMAIN cache THEN cache[chatId] ELSE << >>

\* Map.prototype.set
mapSet(cache, chatId, messages) ==
  [c \in DOMAIN cache \cup {chatId} |-> IF c = chatId THEN messages ELSE cache[c]]

\* Map.prototype.delete
mapDelete(cache, chatId) ==
  [c \in DOMAIN cache \ {chatId} |-> cache[c]]

\* Lines 59-73: push, then keep the last 100
storeConversationMessage(cache, chatId, message) ==
  LET messages == Append(cachedMessages(cache, chatId), message)
  IN  mapSet(cache, chatId,
             IF Len(messages) > CacheLimit THEN slice(messages, 0 - CacheLimit) ELSE messages)

\* Lines 105-106
getConversationHistory(cache, chatId, limit) ==
  slice(cachedMessages(cache, chatId), 0 - limit)

\* Line 124
clearConversation(cache, chatId) ==
  mapDelete(cache, chatId)

DefaultLimit == 20

Limits == {0, 1, DefaultLimit, CacheLimit + 1}

----------------------------------------------------------------------------
(* VIP contacts of skills/email and services/supabase.ts                     *)

\* VIP calls in a run whose round trips may overlap
MaxVipCalls == 3

\* Writes to the vip_contacts table in a run
MaxVipWrites == 2

\* Steps of the clock in a run
MaxTicks == 1

VIP_CACHE_TTL == 300000

\* Date.now() when the process starts, and the step of the clock
StartTime == VIP_CACHE_TTL

TickMs == VIP_CACHE_TTL

\* An email that is absent or empty
NoEmail == << >>

\* contact.email?.toLowerCase()
optionalLowerCase(email) ==
  IF email = NoEmail THEN NoEmail ELSE toLowerCase(email)

vipRow(email, confirmed, suggested_by_bot) ==
  [email |-> email, confirmed |-> confirmed, suggested_by_bot |-> suggested_by_bot]

\* services/supabase.ts getVipContacts: the confirmed rows
getVipContacts(table) ==
  {row \in table : row.confirmed}

\* Lines 242-246: the lower-cased emails of the contacts that have one
vipEmailSet(vipContacts) ==
  {toLowerCase(c.email) : c \in {row \in vipContacts : row.email # NoEmail}}

NullCache == [type |-> "null"]

\* A cached set, with the number of writes the table had taken when the set
\* was read from it
CachedSet(emails, asOf) == [type |-> "set", emails |-> emails, asOf |-> asOf]

\* Line 236
cacheIsFresh(cache, expiry, time) ==
  cache # NullCache /\ time < expiry

\* The writes, as the store applies them
insertVipContact(table, email) ==
  table \cup {vipRow(optionalLowerCase(email), TRUE, FALSE)}

\* suggestAsVip, through suggestVipContact of services/supabase.ts
insertVipSuggestion(table, email) ==
  table \cup {vipRow(toLowerCase(email), FALSE, TRUE)}

deleteVipContact(table, email) ==
  {row \in table : row.email # toLowerCase(email)}

confirmVipContact(table, email) ==
  {IF row.email = toLowerCase(email) /\ row.suggested_by_bot /\ ~ row.confirmed
   THEN [row EXCEPT !.confirmed = TRUE] ELSE row : row \in table}

applyWrite(op, table, email) ==
  CASE op = "addVipContact" -> insertVipContact(table, email)
    [] op = "removeVipContact" -> deleteVipContact(table, email)
    [] op = "confirmVipSuggestion" -> confirmVipContact(table, email)
    [] op = "suggestAsVip" -> insertVipSuggestion(table, email)

\* The writes that end with clearVipCache, and all writes
VipUpdates == {"addVipContact", "removeVipContact", "confirmVipSuggestion"}

VipWrites == VipUpdates \cup {"suggestAsVip"}

NoSet == [type |-> "none"]

\* new Set() of line 251
EmptySet == [type |-> "empty"]

\* Emails handed to the calls
VipEmails == {<<"A">>}

VipFetchPending == [status |-> "pending", rows |-> {}, asOf |-> 0]

VipFetchFailed == [status |-> "error", rows |-> {}, asOf |-> 0]

VipFetched(rows, asOf) == [status |-> "ok", rows |-> rows, asOf |-> asOf]

\* A call in flight or settled.  state: "waiting" for the store, "answered"
\* by it, "done" when the call has returned or thrown
VipCall(op, email, state) ==
  [op |-> op, email |-> email, state |-> state, status |-> "pending",
   startedAfter |-> completed, fetch |-> VipFetchPending, write |-> 0,
   value |-> FALSE, answeredFrom |-> NoSet, cacheBefore |-> vipEmailCache,
   cacheAfter |-> vipEmailCache]

AllVipCallsDone ==
  \A i \in 1..Len(vipCalls) : vipCalls[i].state = "done"

----------------------------------------------------------------------------
(* Inputs *)

MsgChars == {"a", "B"}

SeqsUpTo(S, n) ==
  UNION {[1..k -> S] : k \in 0..n}

ExampleMessages == {MsgPriceOfNvda, MsgHello, MsgSchedule}

\* A message one character longer than the preview of the log entry
MsgLong == [i \in 1..(PreviewLen + 1) |-> IF i <= PreviewLen THEN "a" ELSE "B"]

Messages == SeqsUpTo(MsgChars, MaxMsgLen) \cup ExampleMessages

\* Messages to route: the preview of the log entry needs a long one
RoutedMessages == Messages \cup {MsgLong}

\* Bodies of the JSON object a model may answer with
MemberLists ==
  { << >>,
    << Member("primaryIntent", JsString("calendar")),
       Member("confidence", JsNumber(Frac(9, 10))),
       Member("entities", JsObject({<<"date", "tomorrow">>})),
       Member("reasoning", JsString("mentions a meeting")) >>,
    << Member("primaryIntent", JsString("nonexistent")),
       Member("confidence", JsNumber(Frac(9, 10))) >>,
    << Member("primaryIntent", JsString("general")),
       Member("reasoning", JsString("small talk")) >>,
    << Member("primaryIntent", JsString("market")),
       Member("confidence", JsNumber(Zero)),
       Member("reasoning", JsString("")) >>,
    << Member("primaryIntent", JsString("calendar")),
       Member("confidence", JsNumber(Frac(3, 2))) >>,
    << Member("primaryIntent", JsString("email")),
       Member("confidence", JsString("high")) >> }

\* A response is a core, bare or wrapped in a fence of other characters, or
\* followed by further text that ends in a closing brace
Cores ==
  { << >>, <<LBRACE>> } \cup { <<LBRACE>> \o m \o <<RBRACE>> : m \in MemberLists }

Prose(k) == [i \in 1..k |-> PROSE]

Fenced(core) == { Prose(k) \o core \o Prose(k) : k \in 0..MaxProse }

Trailed(core) == { core \o Prose(k) \o <<RBRACE>> : k \in 1..MaxProse }

Responses == UNION { Fenced(core) \cup Trailed(core) : core \in Cores }

ProviderOutcomes == {ProviderThrows} \cup {ProviderText(r) : r \in Responses}

NoCall == [op |-> "none"]

----------------------------------------------------------------------------
(* State machine *)

Init ==
  /\ isSupabaseConfigured \in BOOLEAN
  /\ skillsTable \in Tables
  /\ SKILL_REGISTRY = << >>
  /\ pc = "idle"
  /\ call = NoCall
  /\ autonomy_log = << >>
  /\ loads = << >>
  /\ conversationCache = << >>
  /\ stored = [chatId \in ChatIds |-> 0]
  /\ vip_contacts = {}
  /\ vipEmailCache = NullCache
  /\ vipCacheExpiry = 0
  /\ now = StartTime
  /\ vipCalls = << >>
  /\ applied = 0
  /\ completed = 0

\* An update of the skills table from outside the process
UpdateSkillsTable ==
  /\ pc = "idle"
  /\ \E t \in Tables : t # skillsTable /\ skillsTable' = t
  /\ UNCHANGED <<isSupabaseConfigured, SKILL_REGISTRY, pc, call, autonomy_log, loads>>
  /\ UNCHANGED <<memoryVars, vipVars>>

InitializeSkillRegistry ==
  /\ pc = "idle"
  /\ \E fetch \in FetchOutcomes(skillsTable) \cup {FetchNotCalled} :
       /\ (fetch = FetchNotCalled) <=> ~ isSupabaseConfigured
       /\ SKILL_REGISTRY' = initializeSkillRegistry(isSupabaseConfigured, fetch)
       /\ call' = [op |-> "initializeSkillRegistry", fetch |-> fetch, status |-> "return",
                   before |-> SKILL_REGISTRY]
  /\ pc' = "returned"
  /\ UNCHANGED <<isSupabaseConfigured, skillsTable, autonomy_log, loads>>
  /\ UNCHANGED <<memoryVars, vipVars>>

ClassifyIntentKeyword ==
  /\ pc = "idle"
  /\ \E message \in Messages :
       call' = [op |-> "classifyIntentKeyword", message |-> message, status |-> "return",
                value |-> classifyIntentKeyword(message, SKILL_REGISTRY)]
  /\ pc' = "returned"
  /\ UNCHANGED <<isSupabaseConfigured, skillsTable, SKILL_REGISTRY, autonomy_log, loads>>
  /\ UNCHANGED <<memoryVars, vipVars>>

ClassifyIntentWithAI ==
  /\ pc = "idle"
  /\ \E message \in Messages, provider \in ProviderOutcomes :
       call' = [op |-> "classifyIntentWithAI", message |-> message, provider |-> provider,
                prompt |-> skillDescriptions(SKILL_REGISTRY)]
               @@ classifyIntentWithAI(message, SKILL_REGISTRY, provider)
  /\ pc' = "returned"
  /\ UNCHANGED <<isSupabaseConfigured, skillsTable, SKILL_REGISTRY, autonomy_log, loads>>
  /\ UNCHANGED <<memoryVars, vipVars>>

\* One call of routeMessage whose log insert ends in one of the given ways
RouteMessageWith(inserts) ==
  /\ pc = "idle"
  /\ \E message \in RoutedMessages, hasGenAI \in BOOLEAN, useAI \in BOOLEAN,
        provider \in ProviderOutcomes \cup {ProviderNotCalled},
        fetch \in FetchOutcomes(skillsTable) \cup {FetchNotCalled} :
       /\ (provider = ProviderNotCalled) <=> ~ usesAI(hasGenAI, useAI)
       /\ (fetch = FetchNotCalled) <=> ~ (registryIsEmpty(SKILL_REGISTRY) /\ isSupabaseConfigured)
       /\ SKILL_REGISTRY' = routeRegistry(SKILL_REGISTRY, isSupabaseConfigured, fetch)
       /\ \E outcome \in {routeMessage(message, SKILL_REGISTRY', hasGenAI, useAI, provider)},
             insert \in inserts \cup {InsertNotCalled} :
            LET log == IF outcome.status = "return"
                       THEN logAutonomyAction(isSupabaseConfigured,
                                              autonomyLogRow(outcome.value, message), insert)
                       ELSE [status |-> "throw", inserts |-> << >>]
            IN  /\ (insert = InsertNotCalled) <=> (Len(log.inserts) = 0)
                /\ call' = [op |-> "routeMessage", message |-> message,
                            hasGenAI |-> hasGenAI, useAI |-> useAI,
                            usedAI |-> usesAI(hasGenAI, useAI), provider |-> provider,
                            fetch |-> fetch, insert |-> insert, before |-> SKILL_REGISTRY,
                            logged |-> IF outcome.status = "return"
                                       THEN <<autonomyLogRow(outcome.value, message)>>
                                       ELSE << >>]
                           @@ [outcome EXCEPT !.status = log.status]
                /\ autonomy_log' = log.inserts
  /\ pc' = "returned"
  /\ UNCHANGED <<isSupabaseConfigured, skillsTable, loads>>
  /\ UNCHANGED <<memoryVars, vipVars>>

\* The insert of supabase-js resolves, with or without an error value
RouteMessage == RouteMessageWith({"ok", "error"})

\* One update delivered to the bot; a handler that runs may or may not get as
\* far as its reply
HandleUpdate ==
  /\ pc = "idle"
  /\ \E from \in Senders, kind \in UpdateKinds, ownerUserId \in OwnerUserIds,
        handlerReplies \in BOOLEAN :
       \E ran \in {handleUpdate(from, kind, ownerUserId)} :
          /\ handlerReplies => Len(handlersOf(ran)) > 0
          /\ call' = [op |-> "update", from |-> from, kind |-> kind,
                      ownerUserId |-> ownerUserId, status |-> "return",
                      ran |-> ran, replied |-> handlerReplies]
  /\ pc' = "returned"
  /\ autonomy_log' = << >>
  /\ UNCHANGED <<isSupabaseConfigured, skillsTable, SKILL_REGISTRY, loads>>
  /\ UNCHANGED <<memoryVars, vipVars>>

\* The three calls of core/memory.ts when the store is not configured; none
\* of them awaits anything on this branch, so each runs to its end
StoreConversationMessage ==
  /\ pc = "idle"
  /\ ~ isSupabaseConfigured
  /\ \E chatId \in ChatIds :
       /\ stored[chatId] < MaxStored(chatId)
       /\ stored' = [stored EXCEPT ![chatId] = @ + 1]
       /\ conversationCache' = storeConversationMessage(conversationCache, chatId,
                                   conversationMessage(stored'[chatId]))
       /\ call' = [op |-> "storeConversationMessage", chatId |-> chatId,
                   content |-> stored'[chatId], status |-> "return"]
  /\ pc' = "returned"
  /\ UNCHANGED <<isSupabaseConfigured, skillsTable, SKILL_REGISTRY, autonomy_log, loads>>
  /\ UNCHANGED vipVars

GetConversationHistory ==
  /\ pc = "idle"
  /\ ~ isSupabaseConfigured
  /\ \E chatId \in ChatIds, limit \in Limits :
       call' = [op |-> "getConversationHistory", chatId |-> chatId, limit |-> limit,
                status |-> "return",
                value |-> getConversationHistory(conversationCache, chatId, limit)]
  /\ pc' = "returned"
  /\ UNCHANGED <<isSupabaseConfigured, skillsTable, SKILL_REGISTRY, autonomy_log, loads>>
  /\ UNCHANGED <<memoryVars, vipVars>>

ClearConversation ==
  /\ pc = "idle"
  /\ ~ isSupabaseConfigured
  /\ \E chatId \in ChatIds :
       /\ conversationCache' = clearConversation(conversationCache, chatId)
       /\ call' = [op |-> "clearConversation", chatId |-> chatId, status |-> "return"]
  /\ pc' = "returned"
  /\ UNCHANGED <<isSupabaseConfigured, skillsTable, SKILL_REGISTRY, autonomy_log, loads, stored>>
  /\ UNCHANGED vipVars

\* checkVipStatus up to the await in loadVipCache: a fresh cached set answers
\* the call, otherwise the contacts are asked of the store
StartCheckVipStatus ==
  /\ Len(vipCalls) < MaxVipCalls
  /\ \E email \in VipEmails :
       vipCalls' = Append(vipCalls,
         IF cacheIsFresh(vipEmailCache, vipCacheExpiry, now)
         THEN [VipCall("checkVipStatus", email, "done") EXCEPT
                 !.status = "return",
                 !.value = toLowerCase(email) \in vipEmailCache.emails,
                 !.answeredFrom = vipEmailCache]
         ELSE VipCall("checkVipStatus", email, "waiting"))
  /\ UNCHANGED <<vip_contacts, vipEmailCache, vipCacheExpiry, now, applied, completed>>
  /\ UNCHANGED <<isSupabaseConfigured, skillsTable, SKILL_REGISTRY, pc, call, autonomy_log,
                 loads, memoryVars>>

\* The store answers the select of getVipContacts, or the request fails
StoreAnswersVipFetch ==
  /\ \E i \in 1..Len(vipCalls), ok \in BOOLEAN :
       /\ vipCalls[i].op = "checkVipStatus"
       /\ vipCalls[i].state = "waiting"
       /\ vipCalls' = [vipCalls EXCEPT
                         ![i].state = "answered",
                         ![i].fetch = IF ok THEN VipFetched(getVipContacts(vip_contacts), applied)
                                      ELSE VipFetchFailed]
  /\ UNCHANGED <<vip_contacts, vipEmailCache, vipCacheExpiry, now, applied, completed>>
  /\ UNCHANGED <<isSupabaseConfigured, skillsTable, SKILL_REGISTRY, pc, call, autonomy_log,
                 loads, memoryVars>>

\* loadVipCache after its await, and the rest of checkVipStatus
SettleCheckVipStatus ==
  /\ \E i \in 1..Len(vipCalls) :
       /\ vipCalls[i].op = "checkVipStatus"
       /\ vipCalls[i].state = "answered"
       /\ IF vipCalls[i].fetch.status = "ok"
          THEN /\ vipEmailCache' = CachedSet(vipEmailSet(vipCalls[i].fetch.rows),
                                             vipCalls[i].fetch.asOf)
               /\ vipCacheExpiry' = now + VIP_CACHE_TTL
               /\ vipCalls' = [vipCalls EXCEPT
                                 ![i].state = "done", ![i].status = "return",
                                 ![i].value = toLowerCase(vipCalls[i].email)
                                                \in vipEmailCache'.emails,
                                 ![i].answeredFrom = vipEmailCache',
                                 ![i].cacheBefore = vipEmailCache,
                                 ![i].cacheAfter = vipEmailCache']
          ELSE /\ vipCalls' = [vipCalls EXCEPT
                                 ![i].state = "done", ![i].status = "return",
                                 ![i].value = FALSE,
                                 ![i].answeredFrom = EmptySet,
                                 ![i].cacheBefore = vipEmailCache,
                                 ![i].cacheAfter = vipEmailCache]
               /\ UNCHANGED <<vipEmailCache, vipCacheExpiry>>
  /\ UNCHANGED <<vip_contacts, now, applied, completed>>
  /\ UNCHANGED <<isSupabaseConfigured, skillsTable, SKILL_REGISTRY, pc, call, autonomy_log,
                 loads, memoryVars>>

\* addVipContact, removeVipContact, confirmVipSuggestion or suggestAsVip up to
\* the await of its write
StartVipWrite ==
  /\ Len(vipCalls) < MaxVipCalls
  /\ applied + Cardinality({i \in 1..Len(vipCalls) :
                             vipCalls[i].op \in VipWrites /\ vipCalls[i].state = "waiting"})
       < MaxVipWrites
  /\ \E op \in VipWrites, email \in VipEmails \cup {NoEmail} :
       /\ email = NoEmail => op = "addVipContact"
       /\ vipCalls' = Append(vipCalls, VipCall(op, email, "waiting"))
  /\ UNCHANGED <<vip_contacts, vipEmailCache, vipCacheExpiry, now, applied, completed>>
  /\ UNCHANGED <<isSupabaseConfigured, skillsTable, SKILL_REGISTRY, pc, call, autonomy_log,
                 loads, memoryVars>>

\* The store applies the write, or the request fails
StoreAppliesVipWrite ==
  /\ \E i \in 1..Len(vipCalls), ok \in BOOLEAN :
       /\ vipCalls[i].op \in VipWrites
       /\ vipCalls[i].state = "waiting"
       /\ IF ok
          THEN /\ vip_contacts' = applyWrite(vipCalls[i].op, vip_contacts, vipCalls[i].email)
               /\ applied' = applied + 1
               /\ vipCalls' = [vipCalls EXCEPT ![i].state = "answered", ![i].write = applied']
          ELSE /\ vipCalls' = [vipCalls EXCEPT ![i].state = "answered"]
               /\ UNCHANGED <<vip_contacts, applied>>
  /\ UNCHANGED <<vipEmailCache, vipCacheExpiry, now, completed>>
  /\ UNCHANGED <<isSupabaseConfigured, skillsTable, SKILL_REGISTRY, pc, call, autonomy_log,
                 loads, memoryVars>>

\* The write call after its await: throw the error, or clearVipCache
SettleVipWrite ==
  /\ \E i \in 1..Len(vipCalls) :
       /\ vipCalls[i].op \in VipWrites
       /\ vipCalls[i].state = "answered"
       /\ IF vipCalls[i].write = 0
          THEN /\ vipCalls' = [vipCalls EXCEPT ![i].state = "done", ![i].status = "throw",
                                               ![i].cacheBefore = vipEmailCache,
                                               ![i].cacheAfter = vipEmailCache]
               /\ UNCHANGED <<vipEmailCache, vipCacheExpiry, completed>>
          ELSE IF vipCalls[i].op = "suggestAsVip"
          THEN /\ vipCalls' = [vipCalls EXCEPT ![i].state = "done", ![i].status = "return",
                                               ![i].cacheBefore = vipEmailCache,
                                               ![i].cacheAfter = vipEmailCache]
               /\ UNCHANGED <<vipEmailCache, vipCacheExpiry, completed>>
          ELSE /\ vipEmailCache' = NullCache
               /\ vipCacheExpiry' = 0
               /\ completed' = IF vipCalls[i].write > completed THEN vipCalls[i].write
                                ELSE completed
               /\ vipCalls' = [vipCalls EXCEPT ![i].state = "done", ![i].status = "return",
                                               ![i].cacheBefore = vipEmailCache,
                                               ![i].cacheAfter = NullCache]
  /\ UNCHANGED <<vip_contacts, now, applied>>
  /\ UNCHANGED <<isSupabaseConfigured, skillsTable, SKILL_REGISTRY, pc, call, autonomy_log,
                 loads, memoryVars>>

\* Time passes
Tick ==
  /\ now < StartTime + MaxTicks * TickMs
  /\ now' = now + TickMs
  /\ UNCHANGED <<vip_contacts, vipEmailCache, vipCacheExpiry, vipCalls, applied, completed>>
  /\ UNCHANGED <<isSupabaseConfigured, skillsTable, SKILL_REGISTRY, pc, call, autonomy_log,
                 loads, memoryVars>>

\* The callers have taken their results
ForgetVipCalls ==
  /\ Len(vipCalls) > 0
  /\ AllVipCallsDone
  /\ vipCalls' = << >>
  /\ UNCHANGED <<vip_contacts, vipEmailCache, vipCacheExpiry, now, applied, completed>>
  /\ UNCHANGED <<isSupabaseConfigured, skillsTable, SKILL_REGISTRY, pc, call, autonomy_log,
                 loads, memoryVars>>

\* The caller takes the outcome; the log sink is not read back
Return ==
  /\ pc = "returned"
  /\ pc' = "idle"
  /\ call' = NoCall
  /\ autonomy_log' = << >>
  /\ UNCHANGED <<isSupabaseConfigured, skillsTable, SKILL_REGISTRY, loads>>
  /\ UNCHANGED <<memoryVars, vipVars>>

Next ==
  \/ UpdateSkillsTable
  \/ InitializeSkillRegistry
  \/ ClassifyIntentKeyword
  \/ ClassifyIntentWithAI
  \/ RouteMessage
  \/ HandleUpdate
  \/ Return

Spec == Init /\ [][Next]_vars

\* The VIP calls alone, their round trips to the store overlapping
NextVip ==
  \/ StartCheckVipStatus
  \/ StoreAnswersVipFetch
  \/ SettleCheckVipStatus
  \/ StartVipWrite
  \/ StoreAppliesVipWrite
  \/ SettleVipWrite
  \/ Tick
  \/ ForgetVipCalls

\* The router's state plays no part in them: one start of the process is taken
InitVip ==
  /\ Init
  /\ isSupabaseConfigured
  /\ skillsTable = TableSeed

SpecVip == InitVip /\ [][NextVip]_vars

\* The conversation memory alone
NextMemory ==
  \/ StoreConversationMessage
  \/ GetConversationHistory
  \/ ClearConversation
  \/ Return

SpecMemory == Init /\ [][NextMemory]_vars

----------------------------------------------------------------------------
(* A log sink whose insert may also reject: the promise of the insert is     *)
(* awaited at memory.ts line 272 outside any try block.                      *)

RouteMessageSinkMayReject == RouteMessageWith({"ok", "error", "rejects"})

NextSinkMayReject ==
  \/ UpdateSkillsTable
  \/ InitializeSkillRegistry
  \/ ClassifyIntentKeyword
  \/ ClassifyIntentWithAI
  \/ RouteMessageSinkMayReject
  \/ Return

SpecSinkMayReject == Init /\ [][NextSinkMayReject]_vars

----------------------------------------------------------------------------
(* Overlapping loads: initializeSkillRegistry suspends at the await of line   *)
(* 228, so a second call may start, and its round trip may end, before the   *)
(* first call resumes.                                                        *)

FetchPending == [kind |-> "pending", error |-> FALSE, data |-> << >>]

AllSettled == \A i \in 1..Len(loads) : loads[i].state = "settled"

\* A call of initializeSkillRegistry, made by the named caller, runs up to the
\* await; without a configured store it has no await and runs to its end
StartLoadBy(caller) ==
  /\ pc = "idle"
  /\ Len(loads) < MaxLoads
  /\ IF isSupabaseConfigured
     THEN /\ loads' = Append(loads, [by |-> caller, state |-> "fetching",
                                      fetch |-> FetchPending,
                                      sequential |-> AllSettled, after |-> << >>])
          /\ UNCHANGED SKILL_REGISTRY
     ELSE /\ SKILL_REGISTRY' = initializeSkillRegistry(isSupabaseConfigured, FetchNotCalled)
          /\ loads' = Append(loads, [by |-> caller, state |-> "settled",
                                      fetch |-> FetchNotCalled,
                                      sequential |-> AllSettled,
                                      after |-> initializeSkillRegistry(isSupabaseConfigured,
                                                                        FetchNotCalled)])
  /\ UNCHANGED <<isSupabaseConfigured, skillsTable, pc, call, autonomy_log>>
  /\ UNCHANGED <<memoryVars, vipVars>>

StartLoad == StartLoadBy("initializeSkillRegistry")

\* A call of routeMessage finds the registry empty and awaits its load
\* (lines 372-374); the rest of the call follows the load
StartRoute ==
  /\ registryIsEmpty(SKILL_REGISTRY)
  /\ StartLoadBy("routeMessage")

\* The store answers one of the requests from the table as it is now
StoreAnswers ==
  /\ pc = "idle"
  /\ \E i \in 1..Len(loads), fetch \in FetchOutcomes(skillsTable) :
       /\ loads[i].state = "fetching"
       /\ loads' = [loads EXCEPT ![i].state = "answered", ![i].fetch = fetch]
  /\ UNCHANGED <<isSupabaseConfigured, skillsTable, SKILL_REGISTRY, pc, call, autonomy_log>>
  /\ UNCHANGED <<memoryVars, vipVars>>

\* A call whose answer has arrived resumes and runs to its end
SettleLoad ==
  /\ pc = "idle"
  /\ \E i \in 1..Len(loads) :
       /\ loads[i].state = "answered"
       /\ SKILL_REGISTRY' = initializeSkillRegistry(isSupabaseConfigured, loads[i].fetch)
       /\ loads' = [loads EXCEPT ![i].state = "settled",
                                 ![i].after = initializeSkillRegistry(isSupabaseConfigured,
                                                                      loads[i].fetch)]
  /\ UNCHANGED <<isSupabaseConfigured, skillsTable, pc, call, autonomy_log>>
  /\ UNCHANGED <<memoryVars, vipVars>>

\* The callers have taken their results
ForgetLoads ==
  /\ pc = "idle"
  /\ Len(loads) > 0
  /\ AllSettled
  /\ loads' = << >>
  /\ UNCHANGED <<isSupabaseConfigured, skillsTable, SKILL_REGISTRY, pc, call, autonomy_log>>
  /\ UNCHANGED <<memoryVars, vipVars>>

NextOverlap ==
  \/ UpdateSkillsTable
  \/ StartLoad
  \/ StartRoute
  \/ StoreAnswers
  \/ SettleLoad
  \/ ForgetLoads

SpecOverlap == Init /\ [][NextOverlap]_vars

----------------------------------------------------------------------------
(* Properties of the routing layer *)

IsKeywordCall == pc = "returned" /\ call.op = "classifyIntentKeyword"

IsAICall == pc = "returned" /\ call.op = "classifyIntentWithAI"

IsRouteCall == pc = "returned" /\ call.op = "routeMessage"

\* The model call failed: it threw, the response holds no "{" followed by a
\* "}", or the text from the first "{" to the last "}" is not a JSON object
NoBraces(response) ==
  \A i \in 1..Len(response) :
     response[i] = LBRACE => \A j \in (i + 1)..Len(response) : response[j] # RBRACE

ProviderFailed(provider) ==
  \/ provider.kind = "throws"
  \/ provider.kind = "text" /\ NoBraces(provider.text)
  \/ provider.kind = "text" /\ ~ NoBraces(provider.text) /\ ~ IsJsonObject(jsonMatch(provider.text))

TopKeyword(message) == classifyIntentKeyword(message, SKILL_REGISTRY)[1]

\* C1: classifyIntentWithAI never propagates a failure. Whenever the model
\* call throws, the response has no {...} object or the extracted text is
\* not valid JSON, the call returns a classification with the primaryIntent
\* and confidence of the keyword classifier's top result for the message,
\* empty entities and the reasoning 'Fallback to keyword matching'.
C1_AIFailureFallsBackToKeyword ==
  IsAICall /\ ProviderFailed(call.provider) =>
    /\ call.status = "return"
    /\ call.value.primaryIntent = TopKeyword(call.message).skillId
    /\ call.value.confidence = TopKeyword(call.message).confidence
    /\ call.value.entities = {}
    /\ call.value.reasoning = "Fallback to keyword matching"

\* A model answer that is not JSON, for a message whose top keyword match is
\* a skill other than general with a confidence below 1
C1_Witness ==
  /\ IsAICall
  /\ call.provider.kind = "text"
  /\ ~ NoBraces(call.provider.text)
  /\ ~ IsJsonObject(jsonMatch(call.provider.text))
  /\ call.status = "return"
  /\ call.value.primaryIntent = "market"
  /\ call.value.confidence # One
  /\ call.value.reasoning = "Fallback to keyword matching"

\* C2: routeMessage on the AI path with a provider call that throws returns
\* a result with the same skillId, confidence, extractedParams (empty) and
\* requiresApproval as routeMessage on the keyword path for the same message
\* and registry.
C2_ThrowingProviderEqualsKeywordPath ==
  IsRouteCall /\ call.useAI /\ call.hasGenAI /\ call.provider = ProviderThrows =>
    LET keyword == routeMessage(call.message, SKILL_REGISTRY, call.hasGenAI, FALSE, ProviderNotCalled)
    IN  /\ call.status = "return"
        /\ keyword.status = "return"
        /\ call.value.skillId = keyword.value.skillId
        /\ call.value.confidence = keyword.value.confidence
        /\ call.value.extractedParams = {}
        /\ call.value.extractedParams = keyword.value.extractedParams
        /\ call.value.requiresApproval = keyword.value.requiresApproval

\* The provider throws for a message that the keyword path routes to a skill
\* that needs approval
C2_Witness ==
  /\ IsRouteCall
  /\ call.useAI /\ call.hasGenAI
  /\ call.provider = ProviderThrows
  /\ call.status = "return"
  /\ call.value.skillId = "calendar"
  /\ call.value.requiresApproval

EnabledIds(registry) ==
  {registry[i].id : i \in {k \in 1..Len(registry) : registry[k].enabled}}

\* C3: every result of routeMessage, on the keyword path, the AI path and the
\* AI-failure fallback path, names in skillId a skill that is present and
\* enabled in the registry when the result is produced.
C3_SkillIdIsEnabledInRegistry ==
  IsRouteCall /\ call.status = "return" =>
    call.value.skillId \in EnabledIds(SKILL_REGISTRY)

\* C4: when the AI classifier names a primaryIntent that is the id of no skill
\* in the registry, the result's skillId is the general skill id and not the
\* unknown id.
C4_UnknownIntentFallsBackToGeneral ==
  /\ IsRouteCall
  /\ call.useAI /\ call.hasGenAI
  /\ call.provider.kind = "text"
  /\ ~ ProviderFailed(call.provider)
  /\ ~ hasSkill(SKILL_REGISTRY,
        JsOr(property(jsonMatch(call.provider.text), "primaryIntent"), JsString("general")).s)
  => call.status = "return" /\ call.value.skillId = "general"

\* C5: when the winning skill id cannot be resolved in the registry,
\* routeMessage does not throw and returns a result with requiresApproval
\* false.
C5_UnresolvedSkillIsNotGated ==
  IsRouteCall =>
    /\ call.status = "return"
    /\ ~ hasSkill(SKILL_REGISTRY, call.classification.primaryIntent) =>
         /\ call.value.skillId = call.classification.primaryIntent
         /\ call.value.requiresApproval = FALSE

\* The model names a skill id that the registry does not hold
C5_Witness ==
  /\ IsRouteCall
  /\ call.status = "return"
  /\ call.provider.kind = "text"
  /\ call.classification.primaryIntent = "nonexistent"
  /\ ~ hasSkill(SKILL_REGISTRY, "nonexistent")
  /\ call.value.requiresApproval = FALSE

Gated(registry, skillId) ==
  \E i \in 1..Len(registry) :
     registry[i].id = skillId /\ registry[i].autonomyLevel = "approval_required"

\* C6: for every result of routeMessage and every entry of the list of
\* classifyIntentKeyword, the synthetic general entry included,
\* requiresApproval is true exactly when the registry skill with that skillId
\* has autonomyLevel 'approval_required'.
C6_RequiresApprovalMirrorsAutonomy ==
  /\ IsRouteCall /\ call.status = "return" =>
       (call.value.requiresApproval <=> Gated(SKILL_REGISTRY, call.value.skillId))
  /\ IsKeywordCall =>
       \A i \in 1..Len(call.value) :
          call.value[i].requiresApproval <=> Gated(SKILL_REGISTRY, call.value[i].skillId)

\* Number of trigger patterns of a skill that occur in the lowercased message
MatchCount(skill, message) ==
  Cardinality({k \in 1..Len(skill.triggerPatterns) :
                 includes(toLowerCase(message), toLowerCase(skill.triggerPatterns[k]))})

HasEntry(results, skillId) ==
  \E i \in 1..Len(results) : results[i].skillId = skillId

EntryOf(results, skillId) ==
  results[CHOOSE i \in 1..Len(results) : results[i].skillId = skillId]

\* The lowercased message contains a trigger pattern of the skill as it is
\* written in the registry
ContainsPattern(skill, message) ==
  \E k \in 1..Len(skill.triggerPatterns) :
     includes(toLowerCase(message), skill.triggerPatterns[k])

MatchesSomeSkill(message) ==
  \E i \in 1..Len(SKILL_REGISTRY) :
     /\ SKILL_REGISTRY[i].enabled
     /\ SKILL_REGISTRY[i].id # "general"
     /\ MatchCount(SKILL_REGISTRY[i], message) > 0

\* C8: for every message, the empty one included, that matches no trigger
\* pattern of any enabled skill other than the fallback, classifyIntentKeyword
\* returns exactly one result: the 'general' skill with confidence 1.
C8_NoMatchYieldsGeneral ==
  IsKeywordCall /\ ~ MatchesSomeSkill(call.message) =>
    /\ Len(call.value) = 1
    /\ call.value[1].skillId = "general"
    /\ call.value[1].confidence = Frac(1, 1)

\* A non-empty message that matches nothing in a registry that holds skills
\* with trigger patterns
C8_Witness ==
  /\ IsKeywordCall
  /\ Len(call.message) > 0
  /\ \E i \in 1..Len(SKILL_REGISTRY) :
        SKILL_REGISTRY[i].id # "general" /\ Len(SKILL_REGISTRY[i].triggerPatterns) > 0
  /\ ~ MatchesSomeSkill(call.message)
  /\ call.value[1].skillId = "general"

\* The registry skill an entry of the keyword list stands for
SkillOf(skillId) ==
  SKILL_REGISTRY[CHOOSE i \in 1..Len(SKILL_REGISTRY) : SKILL_REGISTRY[i].id = skillId]

\* C9: the confidence of a skill with t > 0 patterns of which m >= 1 match is
\* min(m/t + 0.5, 1): at least 0.5, at most 1, and not smaller than the
\* confidence the same skill gets for a message that matches fewer or as many
\* of its patterns.
C9_ConfidenceFormula ==
  IsKeywordCall /\ MatchesSomeSkill(call.message) =>
    \A i \in 1..Len(call.value) :
       LET skill == SkillOf(call.value[i].skillId)
           c == call.value[i].confidence
           t == Len(skill.triggerPatterns)
           m == MatchCount(skill, call.message)
       IN  /\ m >= 1 /\ t >= m
           /\ c.d > 0
           /\ IF 2 * m + t <= 2 * t
              THEN c.n * 2 * t = (2 * m + t) * c.d
              ELSE c.n = c.d
           /\ c.n * 2 >= c.d
           /\ c.n <= c.d
           /\ \A other \in Messages :
                LET list == classifyIntentKeyword(other, SKILL_REGISTRY)
                    n == MatchCount(skill, other)
                IN  n >= 1 /\ n <= m =>
                      /\ HasEntry(list, skill.id)
                      /\ EntryOf(list, skill.id).confidence.n * c.d
                           <= c.n * EntryOf(list, skill.id).confidence.d

\* A skill that matches two of its five patterns: confidence 9/10, above the
\* 7/10 of a single hit and below the cap
C9_Witness ==
  /\ IsKeywordCall
  /\ \E i \in 1..Len(call.value) :
        /\ call.value[i].skillId # "general"
        /\ MatchCount(SkillOf(call.value[i].skillId), call.message) = 2
        /\ Len(SkillOf(call.value[i].skillId).triggerPatterns) = 5
        /\ call.value[i].confidence = [n |-> 9, d |-> 10]
        /\ \E other \in Messages :
              MatchCount(SkillOf(call.value[i].skillId), other) = 1

RegistryIndex(skillId) ==
  CHOOSE i \in 1..Len(SKILL_REGISTRY) : SKILL_REGISTRY[i].id = skillId

\* C10: the list of classifyIntentKeyword is ordered by non-increasing
\* confidence, and entries of equal confidence keep the order of their skills
\* in the registry.
C10_SortedAndStable ==
  IsKeywordCall =>
    \A i, j \in 1..Len(call.value) :
       i < j =>
         /\ call.value[j].confidence.n * call.value[i].confidence.d
              <= call.value[i].confidence.n * call.value[j].confidence.d
         /\ call.value[i].confidence = call.value[j].confidence =>
              RegistryIndex(call.value[i].skillId) < RegistryIndex(call.value[j].skillId)

\* Three candidates: two of equal confidence in registry order, ahead of a
\* skill that is registered before them
C10_Witness ==
  /\ IsKeywordCall
  /\ Len(call.value) = 3
  /\ call.value[1].confidence = call.value[2].confidence
  /\ call.value[2].confidence # call.value[3].confidence
  /\ RegistryIndex(call.value[1].skillId) < RegistryIndex(call.value[2].skillId)
  /\ RegistryIndex(call.value[3].skillId) < RegistryIndex(call.value[1].skillId)

----------------------------------------------------------------------------
(* Properties of the registry loader *)

IsLoadCall == pc = "returned" /\ call.op = "initializeSkillRegistry"

\* The load took nothing from the store: no fetch, a failed fetch, or no rows
LoadFellBack ==
  \/ call.fetch.kind \in {"none", "error", "throws"}
  \/ call.fetch.kind = "rows" /\ Len(call.fetch.data) = 0

Ids(registry) == [i \in 1..Len(registry) |-> registry[i].id]

BuiltInIds ==
  <<"calendar", "email", "market", "code-exec", "social", "kanban", "reminders", "general">>

\* C11: initializeSkillRegistry never raises; when the store is not
\* configured, the fetch reports an error, the fetch throws, or the fetch
\* yields zero rows, the registry after the call is exactly the built-in list
\* whatever it held before, so getEnabledSkills() is non-empty and holds the
\* general skill.
C11_FailedLoadLeavesBuiltInList ==
  IsLoadCall =>
    /\ call.status = "return"
    /\ LoadFellBack =>
         /\ SKILL_REGISTRY = DEFAULT_SKILLS
         /\ Ids(SKILL_REGISTRY) = BuiltInIds
         /\ Len(getEnabledSkills(SKILL_REGISTRY)) > 0
         /\ hasSkill(getEnabledSkills(SKILL_REGISTRY), "general")

\* A registry loaded from the store is replaced by the built-in list when the
\* next fetch throws
C11_Witness ==
  /\ IsLoadCall
  /\ call.fetch.kind = "throws"
  /\ Len(call.before) > 0
  /\ call.before # DEFAULT_SKILLS
  /\ SKILL_REGISTRY = DEFAULT_SKILLS

LoadTookRows ==
  call.fetch.kind = "rows" /\ ~ call.fetch.error /\ Len(call.fetch.data) > 0

\* Array.prototype.map of line 234 on one row: trigger_patterns || []
DescribesRow(skill, row) ==
  /\ skill.id = row.id
  /\ skill.triggerPatterns =
       (IF row.trigger_patterns = NULL THEN << >> ELSE row.trigger_patterns)
  /\ skill.autonomyLevel = row.autonomy_level
  /\ skill.enabled = row.enabled

\* C12: when the fetch succeeds with a non-empty row set, the registry is
\* replaced entirely: it holds exactly one descriptor per fetched row, in the
\* order of the fetch, and nothing of the previous registry or of the built-in
\* list remains unless the store returned it.
C12_LoadReplacesRegistryWithRows ==
  (IsLoadCall /\ LoadTookRows) =>
    /\ isSupabaseConfigured
    /\ Len(SKILL_REGISTRY) = Len(call.fetch.data)
    /\ \A i \in 1..Len(SKILL_REGISTRY) :
         DescribesRow(SKILL_REGISTRY[i], call.fetch.data[i])

\* The built-in list of eight gives way to the rows of a smaller table, one
\* of which has no trigger patterns stored
C12_Witness ==
  /\ IsLoadCall
  /\ LoadTookRows
  /\ call.before = DEFAULT_SKILLS
  /\ Len(SKILL_REGISTRY) < Len(call.before)
  /\ \E i \in 1..Len(call.fetch.data) : call.fetch.data[i].trigger_patterns = NULL
  /\ \E i \in 1..Len(call.before) : ~ hasSkill(SKILL_REGISTRY, call.before[i].id)

\* Two loads in sequence that get the same answer, or the same failure, leave
\* the same set of enabled skills
LoadsIdempotent ==
  \A i \in 1..(Len(loads) - 1) :
     ( /\ loads[i].state = "settled"
       /\ loads[i + 1].state = "settled"
       /\ loads[i + 1].sequential
       /\ loads[i].fetch = loads[i + 1].fetch )
     => getEnabledSkills(loads[i].after) = getEnabledSkills(loads[i + 1].after)

\* Once every load has settled the registry is what the load called last made
LastCalledLoadWins ==
  (Len(loads) > 0 /\ AllSettled) => SKILL_REGISTRY = loads[Len(loads)].after

\* C13: initializeSkillRegistry is idempotent in effect: two calls in sequence
\* against an unchanged store leave an identical set of enabled skills, and
\* after any sequence of load calls, overlapping ones included, the registry
\* equals the outcome of the load that was called last.
C13_IdempotentAndLastCallWins ==
  LoadsIdempotent /\ LastCalledLoadWins

----------------------------------------------------------------------------
(* Properties of the router *)

\* The first at most PreviewLen characters of the message
IsPreviewOf(preview, message) ==
  /\ Len(preview) = (IF Len(message) < PreviewLen THEN Len(message) ELSE PreviewLen)
  /\ \A i \in 1..Len(preview) : preview[i] = message[i]

\* C14: every routeMessage call that returns emits exactly one audit-log
\* entry, on the keyword path, the AI path and the AI-failure path alike; the
\* entry carries the returned skillId, the returned confidence, the first at
\* most 100 characters of the message, and the returned reasoning. The entry
\* is the one handed to logAutonomyAction, which passes it to the insert when
\* the store is configured.
C14_ExactlyOneLogEntryPerRoute ==
  (IsRouteCall /\ call.status = "return") =>
    /\ Len(call.logged) = 1
    /\ call.logged[1].skill_id = call.value.skillId
    /\ call.logged[1].action_details.confidence = call.value.confidence
    /\ call.logged[1].action_details.reasoning = call.value.reasoning
    /\ IsPreviewOf(call.logged[1].action_details.message, call.message)
    /\ autonomy_log = (IF isSupabaseConfigured THEN call.logged ELSE << >>)

\* The AI classifier fell back to the keyword result for a message longer
\* than the preview, and the entry reached the insert with the preview cut
C14_Witness ==
  /\ IsRouteCall
  /\ call.status = "return"
  /\ call.usedAI
  /\ ProviderFailed(call.provider)
  /\ Len(call.message) > PreviewLen
  /\ Len(autonomy_log) = 1
  /\ Len(autonomy_log[1].action_details.message) = PreviewLen
  /\ autonomy_log[1].action_details.reasoning = "Fallback to keyword matching"

\* C15: a failure of the audit-log write, whether the sink answers with an
\* error value or the write rejects, is never surfaced by routeMessage: the
\* call completes and returns the RoutingResult it would have returned had
\* the write succeeded.
C15_LogFailureIsNotSurfaced ==
  (IsRouteCall /\ call.insert \in {"error", "rejects"}) =>
    /\ call.status = "return"
    /\ call.value = routingResult(call.classification, SKILL_REGISTRY)

\* C16: routeMessage invokes the AI classifier, and with it the provider, if
\* and only if useAI is true and an AI client was supplied; in every other
\* case the provider is never called and the result is built from the top
\* candidate of the keyword classifier.
C16_AIOnlyWhenAskedAndSupplied ==
  IsRouteCall =>
    /\ call.usedAI <=> (call.useAI /\ call.hasGenAI)
    /\ (call.provider = ProviderNotCalled) <=> ~ call.usedAI
    /\ ~ (call.useAI /\ call.hasGenAI) =>
         /\ call.status = "return"
         /\ call.value.skillId = TopKeyword(call.message).skillId
         /\ call.value.confidence = TopKeyword(call.message).confidence
         /\ call.value.reasoning = "Keyword matching"

\* The flag is set but no client is supplied, and the keyword classifier's
\* top candidate, a skill other than general, is the result
C16_Witness ==
  /\ IsRouteCall
  /\ call.useAI
  /\ ~ call.hasGenAI
  /\ call.provider = ProviderNotCalled
  /\ call.value.skillId # "general"
  /\ call.value.skillId = TopKeyword(call.message).skillId

----------------------------------------------------------------------------
(* Properties of the parse of the model response *)

BraceAt(response, brace) == {i \in 1..Len(response) : response[i] = brace}

\* The text from the first "{" to the first "}" after it
FirstObject(response) ==
  LET open == CHOOSE i \in BraceAt(response, LBRACE) :
                \A k \in BraceAt(response, LBRACE) : i <= k
      close == CHOOSE j \in BraceAt(response, RBRACE) :
                 j > open /\ \A k \in BraceAt(response, RBRACE) : k > open => j <= k
  IN  SubSeq(response, open, close)

StartsWithObject(response) ==
  /\ BraceAt(response, LBRACE) # {}
  /\ \E j \in BraceAt(response, RBRACE) : \A i \in BraceAt(response, LBRACE) : i < j
  /\ IsJsonObject(FirstObject(response))

\* One JSON object with nothing but other characters around it
IsWrappedObject(response) ==
  /\ Cardinality(BraceAt(response, LBRACE)) = 1
  /\ Cardinality(BraceAt(response, RBRACE)) = 1
  /\ StartsWithObject(response)

Present(text, key) == \E i \in 2..(Len(text) - 1) : text[i].key = key

\* parsed[key] when the object has the member, the default when it has not
ValueOrDefault(text, key, default) ==
  IF Present(text, key) THEN property(text, key) ELSE default

\* C17: for a response that holds a single JSON object wrapped in prose or in
\* a code fence, classifyIntentWithAI parses that object only, and each of
\* primaryIntent, confidence, entities and reasoning equals the parsed value
\* when the member is present (a confidence of 0 and an empty reasoning
\* included) and the default only when the member is absent.
C17_PresentFieldsAreKept ==
  (IsAICall /\ call.provider.kind = "text" /\ IsWrappedObject(call.provider.text)) =>
    LET object == FirstObject(call.provider.text)
    IN  /\ call.status = "return"
        /\ call.value.primaryIntent
             = ValueOrDefault(object, "primaryIntent", JsString("general")).s
        /\ call.value.confidence
             = numberOrValue(ValueOrDefault(object, "confidence", JsNumber(Half)))
        /\ call.value.entities = ValueOrDefault(object, "entities", JsObject({})).o
        /\ call.value.reasoning = ValueOrDefault(object, "reasoning", JsString("")).s

\* C18: the response is parsed for its first balanced object: when a valid
\* JSON object is followed by further text that holds braces, the
\* classification is the one of the first object and the rest is ignored.
C18_TrailingBracesAreIgnored ==
  ( /\ IsAICall
    /\ call.provider.kind = "text"
    /\ StartsWithObject(call.provider.text)
    /\ Cardinality(BraceAt(call.provider.text, RBRACE)) > 1 ) =>
    /\ call.status = "return"
    /\ call.value = tryParse(ProviderText(FirstObject(call.provider.text))).value

\* A number between 0 and 1
InUnitInterval(c) ==
  /\ DOMAIN c = {"n", "d"}
  /\ 0 <= c.n
  /\ c.n <= c.d

\* C19: the confidence of every RoutingResult of routeMessage, and of every
\* entry of classifyIntentKeyword, lies in the closed interval [0, 1],
\* whatever the message, the registry and the model output are, a model
\* output with a confidence out of the range or not a number included.
C19_ConfidenceInUnitInterval ==
  /\ (IsRouteCall /\ call.status = "return") => InUnitInterval(call.value.confidence)
  /\ IsKeywordCall =>
       \A i \in 1..Len(call.value) : InUnitInterval(call.value[i].confidence)

----------------------------------------------------------------------------
(* Properties of disabled skills *)

\* The registry is what a load from the store as it is now yields
RegistryIsCurrent ==
  /\ isSupabaseConfigured
  /\ Len(selectEnabled(skillsTable)) > 0
  /\ SKILL_REGISTRY = [i \in 1..Len(selectEnabled(skillsTable)) |->
                         rowToSkill(selectEnabled(skillsTable)[i])]

\* Ids of the skills whose enabled flag is false: in the registry, and in the
\* store the registry was loaded from
DisabledIds ==
  {SKILL_REGISTRY[i].id : i \in {k \in 1..Len(SKILL_REGISTRY) : ~ SKILL_REGISTRY[k].enabled}}
  \cup (IF RegistryIsCurrent
        THEN {skillsTable[i].id : i \in {k \in 1..Len(skillsTable) : ~ skillsTable[k].enabled}}
        ELSE {})

DisabledNotInKeywordResults ==
  IsKeywordCall => \A i \in 1..Len(call.value) : call.value[i].skillId \notin DisabledIds

DisabledNotInCatalogue ==
  IsAICall => \A i \in 1..Len(call.prompt) : call.prompt[i] \notin DisabledIds

DisabledNotRouted ==
  (IsRouteCall /\ call.status = "return") => call.value.skillId \notin DisabledIds

\* C20: a skill whose enabled flag is false is invisible to both classifiers:
\* it is never in the results of classifyIntentKeyword, it is not rendered
\* into the skill catalogue of the AI classifier, and it is never the skillId
\* of a result of routeMessage.
C20_DisabledSkillsAreInvisible ==
  /\ DisabledNotInKeywordResults
  /\ DisabledNotInCatalogue
  /\ DisabledNotRouted

----------------------------------------------------------------------------
(* Properties of the reasoning field *)

IsKeywordRoute == IsRouteCall /\ call.status = "return" /\ ~ call.usedAI

\* C21: the reasoning field is present only on the AI path: a RoutingResult
\* that routeMessage produces through the keyword path carries no, or an
\* empty, reasoning, and the audit-log entry of that call has an empty
\* reasoning string.
C21_KeywordPathHasEmptyReasoning ==
  IsKeywordRoute =>
    /\ call.value.reasoning = ""
    /\ \A i \in 1..Len(call.logged) : call.logged[i].action_details.reasoning = ""

\* C21, as the code has it: on the keyword path the reasoning of the result
\* and of the audit-log entry is the fixed text 'Keyword matching'.
C21_KeywordPathReasoningIsFixedText ==
  IsKeywordRoute =>
    /\ call.value.reasoning = "Keyword matching"
    /\ Len(call.logged) = 1
    /\ call.logged[1].action_details.reasoning = "Keyword matching"

\* A keyword-path call whose entry reached the insert with that reasoning
C21_Witness ==
  /\ IsKeywordRoute
  /\ ~ call.useAI
  /\ Len(autonomy_log) = 1
  /\ autonomy_log[1].action_details.reasoning = "Keyword matching"
  /\ call.value.reasoning = "Keyword matching"

----------------------------------------------------------------------------
(* Properties of the lazy load *)

\* C22: routeMessage loads the registry only if it is empty: once any load
\* has completed the registry is non-empty, so every later routeMessage call
\* performs no store fetch, even if the contents of the store have changed
\* since.
C22_LoadIfEmptyNotIfStale ==
  /\ IsLoadCall => Len(SKILL_REGISTRY) > 0
  /\ IsRouteCall => Len(SKILL_REGISTRY) > 0
  /\ (IsRouteCall /\ Len(call.before) > 0) =>
       /\ call.fetch = FetchNotCalled
       /\ SKILL_REGISTRY = call.before

\* A call routed with a registry that a load from the store as it is now
\* would replace
C22_Witness ==
  /\ IsRouteCall
  /\ isSupabaseConfigured
  /\ Len(call.before) > 0
  /\ call.before # DEFAULT_SKILLS
  /\ Len(selectEnabled(skillsTable)) > 0
  /\ ~ RegistryIsCurrent
  /\ call.fetch = FetchNotCalled

\* Fetches of the store that the lazy load of routeMessage has issued
LazyFetches ==
  {i \in 1..Len(loads) : loads[i].by = "routeMessage" /\ loads[i].fetch.kind # "none"}

\* C23: under any interleaving of routeMessage calls, two calls that both
\* start while the registry is empty and suspend on the round trip included,
\* the lazy load of the router fetches the store at most once in the life of
\* the process.
C23_LazyLoadFetchesAtMostOnce ==
  Cardinality(LazyFetches) <= 1

\* The registry is the whole list that a load makes of the rows
IsCompleteListOf(registry, rows) ==
  /\ Len(rows) > 0
  /\ Len(registry) = Len(rows)
  /\ \A i \in 1..Len(rows) : DescribesRow(registry[i], rows[i])

\* C24: each load replaces the registry wholesale by a single assignment: a
\* read of the registry that interleaves with a reload sees the complete old
\* list or the complete new list, never a partly populated or partly changed
\* one. A reader sees the registry of the state it runs in.
C24_RegistryIsAlwaysAWholeList ==
  \/ Len(SKILL_REGISTRY) = 0
  \/ SKILL_REGISTRY = DEFAULT_SKILLS
  \/ \E table \in Tables : IsCompleteListOf(SKILL_REGISTRY, selectEnabled(table))

\* A reload is in flight: the registry holds the rows of the load that has
\* settled while the answer of the other load, with other rows, is waiting
C24_Witness ==
  /\ Len(loads) = 2
  /\ \E i, j \in 1..2 :
       /\ loads[i].state = "settled"
       /\ loads[j].state = "answered"
       /\ loads[j].fetch.kind = "rows"
       /\ Len(loads[j].fetch.data) > 1
       /\ SKILL_REGISTRY = loads[i].after
       /\ IsCompleteListOf(SKILL_REGISTRY, loads[i].fetch.data)
       /\ ~ IsCompleteListOf(SKILL_REGISTRY, loads[j].fetch.data)

----------------------------------------------------------------------------
(* Frame of routeMessage *)

RoutingResultFields ==
  {"skillId", "confidence", "extractedParams", "requiresApproval", "reasoning"}

\* A step that is one whole call of routeMessage
RouteStep ==
  pc = "idle" /\ pc' = "returned" /\ call'.op = "routeMessage" /\ call'.status = "return"

\* C25: routeMessage only produces a proposal: it returns a single
\* RoutingResult, not the ranked list, it invokes no skill executor, and when
\* the registry is already non-empty it leaves the registry unchanged; its
\* only side effect is the audit-log entry.
C25_RouteOnlyProposes ==
  [][ RouteStep =>
        /\ DOMAIN call'.value = RoutingResultFields
        /\ call'.value.skillId = call'.classification.primaryIntent
        /\ Len(SKILL_REGISTRY) > 0 => SKILL_REGISTRY' = SKILL_REGISTRY
        /\ Len(call'.logged) = 1
        /\ UNCHANGED <<isSupabaseConfigured, skillsTable, loads>> ]_vars

\* A call on a registry loaded from the store: the registry stays and the one
\* entry reaches the insert
C25_Witness ==
  /\ IsRouteCall
  /\ call.status = "return"
  /\ Len(call.before) > 0
  /\ call.before # DEFAULT_SKILLS
  /\ SKILL_REGISTRY = call.before
  /\ Len(autonomy_log) = 1
  /\ DOMAIN call.value = RoutingResultFields

----------------------------------------------------------------------------
(* Frame of classifyIntentKeyword *)

\* A step that is one whole call of classifyIntentKeyword
KeywordStep ==
  pc = "idle" /\ pc' = "returned" /\ call'.op = "classifyIntentKeyword"

----------------------------------------------------------------------------
(* The fallback skill *)

\* Enabled skills of the registry that have no trigger pattern
PatternlessSkills ==
  {i \in 1..Len(SKILL_REGISTRY) :
     SKILL_REGISTRY[i].enabled /\ SKILL_REGISTRY[i].triggerPatterns = << >>}

\* C27: after every completed initializeSkillRegistry call, whether it took
\* the rows of the store or the built-in list, the registry holds exactly one
\* enabled skill with an empty triggerPatterns list, and that skill is the one
\* the keyword classifier falls back to.
C27_ExactlyOnePatternlessFallback ==
  IsLoadCall =>
    /\ Cardinality(PatternlessSkills) = 1
    /\ \A i \in PatternlessSkills : SKILL_REGISTRY[i].id = generalResult.skillId

----------------------------------------------------------------------------
(* Properties of the owner guard *)

IsUpdateCall == pc = "returned" /\ call.op = "update"

\* C28: no command handler and no message handler of the bot runs, and no
\* reply is sent, for an update whose sender id differs from the configured
\* owner id, an update without a sender included; the owner check runs before
\* every handler.
C28_OnlyTheOwnerReachesHandlers ==
  IsUpdateCall =>
    /\ call.from # Sender(call.ownerUserId) =>
         /\ handlersOf(call.ran) = << >>
         /\ ~ call.replied
    /\ Len(call.ran) > 0
    /\ call.ran[1] = "ownerGuard"
    /\ \A i \in 2..Len(call.ran) : call.ran[i] # "ownerGuard"

\* A /start command without a sender ends at the guard
C28_Witness ==
  /\ IsUpdateCall
  /\ call.from = NoSender
  /\ call.kind = "start"
  /\ call.ran = <<"ownerGuard">>
  /\ ~ call.replied

\* The owner's text message reaches the text handler
C28_OwnerIsServed ==
  /\ IsUpdateCall
  /\ call.from = Sender(call.ownerUserId)
  /\ call.kind = "text"
  /\ call.ran = <<"ownerGuard", "message:text">>
  /\ call.replied

----------------------------------------------------------------------------
(* Properties of the conversation memory *)

\* The messages numbered from..to of a chat, in the order they were stored
MessagesNumbered(from, to) ==
  [i \in 1..(to - from + 1) |-> conversationMessage(from + i - 1)]

\* The cached history is a run of consecutively stored messages that ends with
\* the one stored last, at most 100 long
IsRecentRun(messages, chatId) ==
  /\ Len(messages) <= CacheLimit
  /\ Len(messages) <= stored[chatId]
  /\ messages = MessagesNumbered(stored[chatId] - Len(messages) + 1, stored[chatId])

CachedHistoriesAreRecentRuns ==
  \A chatId \in DOMAIN conversationCache :
     IsRecentRun(conversationCache[chatId], chatId)

\* A clear empties the chat; a store adds the new message to what was cached
\* since, dropping the oldest one of a full cache
CacheFollowsStoresAndClears ==
  pc = "returned" =>
    /\ call.op = "clearConversation" => call.chatId \notin DOMAIN conversationCache
    /\ call.op = "storeConversationMessage" =>
         /\ call.chatId \in DOMAIN conversationCache
         /\ Len(conversationCache[call.chatId]) >= 1
         /\ conversationCache[call.chatId][Len(conversationCache[call.chatId])].content
              = call.content

IsGetCall == pc = "returned" /\ call.op = "getConversationHistory"

\* The answer of a get is the end of the cached history, no longer than limit
IsMostRecent(value, chatId, limit) ==
  LET messages == cachedMessages(conversationCache, chatId)
      n == IF limit < Len(messages) THEN limit ELSE Len(messages)
  IN  /\ Len(value) <= limit
      /\ value = SubSeq(messages, Len(messages) - n + 1, Len(messages))

\* C29: in in-memory mode, after any sequence of store and clear calls each
\* chat's cached history holds at most 100 messages, the most recently stored
\* ones since the last clear in insertion order; and getConversationHistory
\* with a limit returns at most limit messages, the most recent ones in
\* chronological order, for every limit >= 0.
C29_CacheKeepsLast100AndGetHonoursLimit ==
  /\ CachedHistoriesAreRecentRuns
  /\ CacheFollowsStoresAndClears
  /\ IsGetCall => IsMostRecent(call.value, call.chatId, call.limit)

\* The same with the limit 0 left out
C29_HoldsForPositiveLimits ==
  /\ CachedHistoriesAreRecentRuns
  /\ CacheFollowsStoresAndClears
  /\ (IsGetCall /\ call.limit >= 1) => IsMostRecent(call.value, call.chatId, call.limit)

\* A full cache has dropped its oldest message
C29_CacheOverflowed ==
  /\ "1" \in DOMAIN conversationCache
  /\ stored["1"] > CacheLimit
  /\ Len(conversationCache["1"]) = CacheLimit
  /\ conversationCache["1"][1].content = stored["1"] - CacheLimit + 1

\* A get with limit 0 on a chat with history
C29_GetWithLimitZero ==
  /\ IsGetCall
  /\ call.limit = 0
  /\ Len(call.value) > 0

----------------------------------------------------------------------------
(* Properties of the VIP cache *)

IsSettledCheck(c) == c.op = "checkVipStatus" /\ c.state = "done"

\* The set that answered the check was read from the table after every update
\* that had completed when the check started
AnsweredFromFreshSet(c) ==
  c.answeredFrom.type = "set" => c.answeredFrom.asOf >= c.startedAfter

\* A check whose fetch failed answers from the empty set, and the cache is as
\* it was
FailedFetchStoresNothing(c) ==
  c.fetch.status = "error" =>
    /\ c.answeredFrom = EmptySet
    /\ ~ c.value
    /\ c.cacheAfter = c.cacheBefore

\* C30: once addVipContact, removeVipContact or confirmVipSuggestion has
\* completed successfully, every checkVipStatus call started afterwards
\* answers from a VIP set read from the store after that update, never from a
\* set read before it, whatever cache loads were in flight; a failed fetch
\* returns the empty set without storing it in the cache.
C30_ChecksAfterAnUpdateSeeIt ==
  \A i \in 1..Len(vipCalls) :
     IsSettledCheck(vipCalls[i]) =>
       /\ AnsweredFromFreshSet(vipCalls[i])
       /\ FailedFetchStoresNothing(vipCalls[i])

\* The second half alone
C30_FailedFetchStoresNothing ==
  \A i \in 1..Len(vipCalls) :
     IsSettledCheck(vipCalls[i]) => FailedFetchStoresNothing(vipCalls[i])

\* A check started after addVipContact had returned says the contact is no VIP
C30_StaleAnswer ==
  \E i, j \in 1..Len(vipCalls) :
     /\ vipCalls[i].op = "addVipContact"
     /\ vipCalls[i].status = "return"
     /\ IsSettledCheck(vipCalls[j])
     /\ vipCalls[j].startedAfter >= vipCalls[i].write
     /\ vipCalls[j].email = vipCalls[i].email
     /\ vipCalls[j].answeredFrom.type = "set"
     /\ ~ vipCalls[j].value

\* A check whose fetch failed while a set was cached
C30_FailedFetchWithCache ==
  \E i \in 1..Len(vipCalls) :
     /\ IsSettledCheck(vipCalls[i])
     /\ vipCalls[i].fetch.status = "error"
     /\ vipCalls[i].cacheBefore # NullCache

====
